---- MODULE Spec2Model ----
(***************************************************************************)
(* A model of the open.mp C API generators (tools/generate_single_header.js *)
(* and the api.json documentation generator that follows it in the same    *)
(* source file) and of the omp_initialize_capi function the header         *)
(* generator emits.                                                        *)
(*                                                                         *)
(* Text is modelled as a sequence of one-character strings, so that the    *)
(* JavaScript string operations the parser is built from (indexOf,         *)
(* substring, split, replace, trim, join) are computed character by        *)
(* character, with JavaScript's 0-based indices.                           *)
(***************************************************************************)
EXTENDS Integers, Sequences, FiniteSets, TLC

(***************************************************************************)
(* Bounds of the model.                                                    *)
(***************************************************************************)
\* Annotation-free and annotated lines read from the whole directory tree.
MaxLines == 3
\* Parameter tokens of one generated annotation line.
MaxParams == 2

(***************************************************************************)
(* Character sequences used by the program and by the modelled inputs.     *)
(***************************************************************************)
SP == <<" ">>
US == <<"_">>
LP == <<"(">>
RP == <<")">>
COMMA_SP == <<",", " ">>
EMPTY == << >>

API_PREFIX == <<"O","M","P","_","C","A","P","I","(">>
APIS_SUFFIX == <<"A","P","I","s",".","c","p","p">>

t_StringCharPtr == <<"S","t","r","i","n","g","C","h","a","r","P","t","r">>
t_objectPtr == <<"o","b","j","e","c","t","P","t","r">>
t_voidPtr == <<"v","o","i","d","P","t","r">>
t_OutputStringViewPtr == <<"O","u","t","p","u","t","S","t","r","i","n","g","V","i","e","w","P","t","r">>
t_OutputStringBufferPtr == <<"O","u","t","p","u","t","S","t","r","i","n","g","B","u","f","f","e","r","P","t","r">>
t_ComponentVersion == <<"C","o","m","p","o","n","e","n","t","V","e","r","s","i","o","n">>
t_CAPIStringView == <<"C","A","P","I","S","t","r","i","n","g","V","i","e","w">>
t_const_char_ptr == <<"c","o","n","s","t"," ","c","h","a","r","*">>
t_void_ptr == <<"v","o","i","d","*">>
t_struct_CAPIStringView_ptr == <<"s","t","r","u","c","t"," ","C","A","P","I","S","t","r","i","n","g","V","i","e","w","*">>
t_struct_CAPIStringBuffer_ptr == <<"s","t","r","u","c","t"," ","C","A","P","I","S","t","r","i","n","g","B","u","f","f","e","r","*">>
t_struct_ComponentVersion == <<"s","t","r","u","c","t"," ","C","o","m","p","o","n","e","n","t","V","e","r","s","i","o","n">>
t_struct_CAPIStringView == <<"s","t","r","u","c","t"," ","C","A","P","I","S","t","r","i","n","g","V","i","e","w">>
t_CAPIStringView_ptr == <<"C","A","P","I","S","t","r","i","n","g","V","i","e","w","*">>
t_CAPIStringBuffer_ptr == <<"C","A","P","I","S","t","r","i","n","g","B","u","f","f","e","r","*">>
t_int == <<"i","n","t">>
t_float == <<"f","l","o","a","t">>
t_bool == <<"b","o","o","l">>
t_uint32_t == <<"u","i","n","t","3","2","_","t">>
t_int_ptr == <<"i","n","t","*">>

g_Actor == <<"A","c","t","o","r">>
g_Core == <<"C","o","r","e">>
g_Player == <<"P","l","a","y","e","r">>
n_Create == <<"C","r","e","a","t","e">>
n_TickCount == <<"T","i","c","k","C","o","u","n","t">>
n_Get == <<"G","e","t">>
n_Pos == <<"P","o","s">>
n_Print == <<"P","r","i","n","t">>
n_OnPlayerConnect == <<"O","n","P","l","a","y","e","r","C","o","n","n","e","c","t">>

p_modelid == <<"m","o","d","e","l","i","d">>
p_x == <<"x">>
p_y == <<"y">>
p_z == <<"z">>
p_rotation == <<"r","o","t","a","t","i","o","n">>
p_id == <<"i","d">>
p_actor == <<"a","c","t","o","r">>
p_playerid == <<"p","l","a","y","e","r","i","d">>
p_ip == <<"i","p">>

(***************************************************************************)
(* JavaScript string operations.                                           *)
(***************************************************************************)
Clamp(i, n) == IF i < 0 THEN 0 ELSE IF i > n THEN n ELSE i

\* s.substring(start, end): both ends clamped to [0, length], swapped when
\* start > end.
substring(s, start, end) ==
  LET a == Clamp(start, Len(s))
      b == Clamp(end, Len(s))
      lo == IF a <= b THEN a ELSE b
      hi == IF a <= b THEN b ELSE a
  IN  SubSeq(s, lo + 1, hi)

\* s.indexOf(pat, from): the 0-based index of the first occurrence at or
\* after from, -1 when there is none.
indexOf(s, pat, from) ==
  LET f == Clamp(from, Len(s))
      hits == {i \in f..(Len(s) - Len(pat)) : SubSeq(s, i + 1, i + Len(pat)) = pat}
  IN  IF hits = {} THEN -1 ELSE CHOOSE i \in hits : \A j \in hits : i <= j

startsWith(s, pat) == Len(pat) <= Len(s) /\ SubSeq(s, 1, Len(pat)) = pat

endsWith(s, pat) ==
  Len(pat) <= Len(s) /\ SubSeq(s, Len(s) - Len(pat) + 1, Len(s)) = pat

\* s.replace(pat, by) with a string pattern: the first occurrence only.
replace(s, pat, by) ==
  LET i == indexOf(s, pat, 0)
  IN  IF i = -1 THEN s
      ELSE SubSeq(s, 1, i) \o by \o SubSeq(s, i + Len(pat) + 1, Len(s))

\* s.split(sep) with a non-empty separator: every occurrence splits.
split(s, sep) ==
  LET piecesFrom[from \in 0..Len(s)] ==
        LET i == indexOf(s, sep, from)
        IN  IF i = -1 THEN <<SubSeq(s, from + 1, Len(s))>>
            ELSE <<SubSeq(s, from + 1, i)>> \o piecesFrom[i + Len(sep)]
  IN  piecesFrom[0]

\* parts.join(sep)
join(parts, sep) ==
  LET joined[k \in 0..Len(parts)] ==
        IF k = 0 THEN << >>
        ELSE IF k = 1 THEN parts[1]
        ELSE joined[k - 1] \o sep \o parts[k]
  IN  joined[Len(parts)]

WhiteSpace == {" ", "\t"}

\* s.trim()
trim(s) ==
  LET kept == {i \in 1..Len(s) : s[i] \notin WhiteSpace}
  IN  IF kept = {} THEN << >>
      ELSE SubSeq(s, CHOOSE i \in kept : \A j \in kept : i <= j,
                     CHOOSE i \in kept : \A j \in kept : i >= j)

(***************************************************************************)
(* Type normalisation tables and the signature parser of the header        *)
(* generator.                                                              *)
(***************************************************************************)
TYPE_MAPPINGS_function ==
  (t_StringCharPtr :> t_const_char_ptr) @@
  (t_objectPtr :> t_void_ptr) @@
  (t_voidPtr :> t_void_ptr) @@
  (t_OutputStringViewPtr :> t_struct_CAPIStringView_ptr) @@
  (t_OutputStringBufferPtr :> t_struct_CAPIStringBuffer_ptr) @@
  (t_ComponentVersion :> t_struct_ComponentVersion)

TYPE_MAPPINGS_event == (t_CAPIStringView :> t_struct_CAPIStringView)

convertFunctionArgType(type) ==
  IF type \in DOMAIN TYPE_MAPPINGS_function
  THEN TYPE_MAPPINGS_function[type] ELSE type

convertEventArgType(type) ==
  IF type \in DOMAIN TYPE_MAPPINGS_event
  THEN TYPE_MAPPINGS_event[type] ELSE type

\* The value of a JavaScript expression that produced no object.
undefined == [undefined |-> TRUE]

\* The TypeError thrown by rest.indexOf when the line holds no ", ".
TypeError == [threw |-> "TypeError"]

\* A filter that gives up at the first undefined element.
filterBoolean_stopAtFirst(array) ==
  LET missing == {i \in 1..Len(array) : array[i] = undefined}
  IN  IF missing = {} THEN array
      ELSE SubSeq(array, 1, (CHOOSE i \in missing : \A j \in missing : i <= j) - 1)

\* array.filter(Boolean) on an array of objects and undefined.
filterBoolean(array) == SelectSeq(array, LAMBDA v : v # undefined)

parseParameter(paramString) ==
  LET parts == split(trim(paramString), SP)
  IN  IF Len(parts) < 2 THEN undefined
      ELSE [name |-> parts[2], type |-> convertFunctionArgType(parts[1])]

\* A name that keeps only the segment after the group.
nameFromParts_firstOnly(nameParts) ==
  IF nameParts = << >> THEN EMPTY ELSE nameParts[1]

\* const name = nameParts.join("_")
nameFromParts(nameParts) == join(nameParts, US)

parseAPILine(line) ==
  LET content == replace(line, API_PREFIX, EMPTY)
      pieces == split(content, COMMA_SP)
  IN  IF Len(pieces) < 2 THEN TypeError
      ELSE
        LET fullName == pieces[1]
            rest == pieces[2]
            segments == split(fullName, US)
            group == segments[1]
            name == nameFromParts(Tail(segments))
            returnTypeEnd == indexOf(rest, LP, 0)
            returnType == substring(rest, 0, returnTypeEnd)
            paramsStart == indexOf(content, LP, indexOf(content, returnType, 0)) + 1
            paramsEnd == indexOf(content, RP, 0)
            paramsString == substring(content, paramsStart, paramsEnd)
            tokens == split(paramsString, COMMA_SP)
            parameters ==
              filterBoolean([i \in 1..Len(tokens) |-> parseParameter(tokens[i])])
        IN  [group |-> group,
             api |-> [ret |-> convertFunctionArgType(returnType),
                      name |-> name,
                      params |-> parameters]]

(***************************************************************************)
(* The same parser in the documentation generator: its own table, the      *)
(* full name kept unsplit.                                                 *)
(***************************************************************************)
doc_TYPE_MAPPINGS ==
  (t_StringCharPtr :> t_const_char_ptr) @@
  (t_objectPtr :> t_void_ptr) @@
  (t_voidPtr :> t_void_ptr) @@
  (t_OutputStringViewPtr :> t_CAPIStringView_ptr) @@
  (t_OutputStringBufferPtr :> t_CAPIStringBuffer_ptr)

convertTypeName(type) ==
  IF type \in DOMAIN doc_TYPE_MAPPINGS THEN doc_TYPE_MAPPINGS[type] ELSE type

doc_parseParameter(paramString) ==
  LET parts == split(trim(paramString), SP)
  IN  IF Len(parts) < 2 THEN undefined
      ELSE [name |-> parts[2], type |-> convertTypeName(parts[1])]

doc_parseAPILine(line) ==
  LET content == replace(line, API_PREFIX, EMPTY)
      pieces == split(content, COMMA_SP)
  IN  IF Len(pieces) < 2 THEN TypeError
      ELSE
        LET apiName == pieces[1]
            rest == pieces[2]
            componentName == split(apiName, US)[1]
            returnTypeEnd == indexOf(rest, LP, 0)
            returnType == substring(rest, 0, returnTypeEnd)
            paramsStart == indexOf(content, LP, indexOf(content, returnType, 0)) + 1
            paramsEnd == indexOf(content, RP, 0)
            paramsString == substring(content, paramsStart, paramsEnd)
            tokens == split(paramsString, COMMA_SP)
            parameters ==
              filterBoolean([i \in 1..Len(tokens) |-> doc_parseParameter(tokens[i])])
        IN  [group |-> componentName,
             api |-> [ret |-> convertTypeName(returnType),
                      name |-> apiName,
                      params |-> parameters]]

(***************************************************************************)
(* Fixed configuration of the header generator.                            *)
(***************************************************************************)
ENTITY_TYPES ==
  << <<"P","l","a","y","e","r">>,
     <<"V","e","h","i","c","l","e">>,
     <<"M","e","n","u">>,
     <<"T","e","x","t","D","r","a","w">>,
     <<"T","e","x","t","L","a","b","e","l">>,
     <<"O","b","j","e","c","t">>,
     <<"P","l","a","y","e","r","O","b","j","e","c","t">>,
     <<"P","l","a","y","e","r","T","e","x","t","L","a","b","e","l","3","D">>,
     <<"P","l","a","y","e","r","T","e","x","t","D","r","a","w">>,
     <<"C","l","a","s","s">>,
     <<"G","a","n","g","Z","o","n","e">>,
     <<"P","i","c","k","u","p">>,
     <<"N","P","C">> >>

T_SUFFIX == <<"_", "t">>
STAR == <<"*">>

\* The C names the emitted text gives a record: `${group}_${func.name}_t`
\* and "${group}_${func.name}".
typeName(group, name) == group \o US \o name \o T_SUFFIX
symbolName(group, name) == group \o US \o name

\* The symbol string and the field of the hard-coded sentinel statement.
SENTINEL_GROUP == g_Core
SENTINEL_NAME == n_TickCount
SENTINEL_SYMBOL == <<"C","o","r","e","_","T","i","c","k","C","o","u","n","t">>

(***************************************************************************)
(* Emitted text.  The output artifact is a sequence of chunks, one per     *)
(* emitted declaration or statement, in the order of the appendFileSync    *)
(* calls; a chunk keeps the names and types the emitted line is built of.  *)
(***************************************************************************)
Chunk(kind, group, name, type, text, args) ==
  [kind |-> kind, group |-> group, name |-> name, type |-> type,
   text |-> text, args |-> args]

Plain(kind) == Chunk(kind, EMPTY, EMPTY, EMPTY, EMPTY, << >>)

concat(seqs) ==
  LET upTo[k \in 0..Len(seqs)] == IF k = 0 THEN << >> ELSE upTo[k - 1] \o seqs[k]
  IN  upTo[Len(seqs)]

\* What the output file held before the run.
STALE == <<Plain("stale")>>

HEADER_TEMPLATE == <<Plain("template")>>

\* ENTITY_TYPES.map(type => `typedef void* ${type};\n`).join("")
writeEntityTypeDefinitions ==
  [i \in 1..Len(ENTITY_TYPES) |->
     Chunk("entity", EMPTY, ENTITY_TYPES[i], t_void_ptr, EMPTY, << >>)]

\* A rendering with name and type exchanged.
renderParams_nameFirst(params) ==
  join([i \in 1..Len(params) |-> params[i].name \o SP \o params[i].type], COMMA_SP)

\* func.params.map(param => `${param.type} ${param.name}`).join(", ")
renderParams(params) ==
  join([i \in 1..Len(params) |-> params[i].type \o SP \o params[i].name], COMMA_SP)

\* One group comment, then `typedef ${func.ret} (*${group}_${func.name}_t)(${params});`
\* per record.
writeFunctionTypeDefinitions(byGroup) ==
  concat([g \in 1..Len(byGroup) |->
    <<Chunk("typedefs_comment", byGroup[g].group, EMPTY, EMPTY, EMPTY, << >>)>> \o
    [f \in 1..Len(byGroup[g].functions) |->
       Chunk("typedef", byGroup[g].group, byGroup[g].functions[f].name,
             byGroup[g].functions[f].ret,
             renderParams(byGroup[g].functions[f].params), << >>)]])

\* Per component a comment; per event the argument struct and the callback
\* typedef, each argument `${convertEventArgType(param.type)}* ${param.name};`.
writeEventDefinitions(schema) ==
  concat([g \in 1..Len(schema) |->
    <<Chunk("events_comment", schema[g].group, EMPTY, EMPTY, EMPTY, << >>)>> \o
    [e \in 1..Len(schema[g].list) |->
       Chunk("event", schema[g].group, schema[g].list[e].name, EMPTY, EMPTY,
             [a \in 1..Len(schema[g].list[e].args) |->
                [type |-> convertEventArgType(schema[g].list[e].args[a].type) \o STAR,
                 name |-> schema[g].list[e].args[a].name]])]])
  \o <<Plain("events_end")>>

\* `struct ${group}_t {`, one `${group}_${func.name}_t ${func.name};` per
\* record, `};`
writeStructDefinitions(byGroup) ==
  concat([g \in 1..Len(byGroup) |->
    <<Chunk("struct_open", byGroup[g].group, EMPTY, EMPTY, EMPTY, << >>)>> \o
    [f \in 1..Len(byGroup[g].functions) |->
       Chunk("field", byGroup[g].group, byGroup[g].functions[f].name,
             typeName(byGroup[g].group, byGroup[g].functions[f].name), EMPTY, << >>)]
    \o <<Chunk("struct_close", byGroup[g].group, EMPTY, EMPTY, EMPTY, << >>)>>])

\* `struct OMPAPI_t {`, one `struct ${group}_t ${group};` per group, `};`
writeMainAPIStruct(byGroup) ==
  <<Plain("main_open")>> \o
  [g \in 1..Len(byGroup) |->
     Chunk("main_field", byGroup[g].group, EMPTY, EMPTY, EMPTY, << >>)]
  \o <<Plain("main_close")>>

\* An assignment that looks the symbol up by the bare function name.
assignStatement_bareName(group, func) ==
  [kind |-> "init_assign", group |-> group, name |-> func.name,
   type |-> group \o US \o func.name \o T_SUFFIX, text |-> func.name,
   args |-> << >>]

\* `ompapi->${group}.${func.name} =
\*    (${group}_${func.name}_t)LIBRARY_GET_ADDR(capi_lib, "${group}_${func.name}");`
assignStatement(group, func) ==
  Chunk("init_assign", group, func.name, typeName(group, func.name),
        symbolName(group, func.name), << >>)

\* The first template block: the library open with its null check, then the
\* sentinel assignment with its null check.
initializerHead ==
  << Plain("init_open"),
     Chunk("init_sentinel", SENTINEL_GROUP, SENTINEL_NAME,
           typeName(SENTINEL_GROUP, SENTINEL_NAME), SENTINEL_SYMBOL, << >>) >>

initializerBody(byGroup) ==
  concat([g \in 1..Len(byGroup) |->
    <<Chunk("init_comment", byGroup[g].group, EMPTY, EMPTY, EMPTY, << >>)>> \o
    [f \in 1..Len(byGroup[g].functions) |->
       assignStatement(byGroup[g].group, byGroup[g].functions[f])]])

\* An initializer that resolves every symbol before it checks the sentinel.
writeInitializationFunction_checkLast(byGroup) ==
  <<initializerHead[1]>> \o initializerBody(byGroup) \o <<initializerHead[2]>>
  \o <<Plain("init_return")>>

writeInitializationFunction(byGroup) ==
  initializerHead \o initializerBody(byGroup) \o <<Plain("init_return")>>

writeFooter == <<Plain("footer")>>

\* JSON.stringify(documentation, null, 2): the components in key order, the
\* records of each in array order.
stringifyDocumentation(byGroup) ==
  concat([g \in 1..Len(byGroup) |->
    <<Chunk("json_component", byGroup[g].group, EMPTY, EMPTY, EMPTY, << >>)>> \o
    [f \in 1..Len(byGroup[g].functions) |->
       Chunk("json_api", byGroup[g].group, byGroup[g].functions[f].name,
             byGroup[g].functions[f].ret, EMPTY,
             byGroup[g].functions[f].params)]])

(***************************************************************************)
(* The grouped model: a JavaScript object keyed by group, whose own        *)
(* string keys enumerate in insertion order, each holding an array.        *)
(***************************************************************************)
\* array.unshift(api)
push_front(array, api) == <<api>> \o array

\* array.push(api)
push(array, api) == Append(array, api)

\* if (!apisByGroup[group]) apisByGroup[group] = []; apisByGroup[group].push(api)
addToGroup(byGroup, group, api) ==
  IF \E i \in 1..Len(byGroup) : byGroup[i].group = group
  THEN [i \in 1..Len(byGroup) |->
          IF byGroup[i].group = group
          THEN [byGroup[i] EXCEPT !.functions = push(@, api)]
          ELSE byGroup[i]]
  ELSE Append(byGroup, [group |-> group, functions |-> push(<< >>, api)])

\* for (const { group, api } of apis) { ... }
addAll(byGroup, list) ==
  LET after[k \in 0..Len(list)] ==
        IF k = 0 THEN byGroup
        ELSE addToGroup(after[k - 1], list[k].group, list[k].api)
  IN  after[Len(list)]

(***************************************************************************)
(* Inputs: the scanned directory and the lines its files may hold.         *)
(***************************************************************************)
\* An annotation line written out from its parts:
\* OMP_CAPI(Group_Name, ReturnType(Type0 name0, Type1 name1))
RenderLine(d) ==
  API_PREFIX \o d.group \o US \o join(d.segs, US) \o COMMA_SP \o d.ret \o LP
  \o join([i \in 1..Len(d.params) |-> join(d.params[i], SP)], COMMA_SP)
  \o RP \o RP

Desc(group, segs, ret, params) ==
  [group |-> group, segs |-> segs, ret |-> ret, params |-> params]

\* The descriptor the parser is handed before any line is chosen.
CoreTickCountDesc == Desc(g_Core, <<n_TickCount>>, t_uint32_t, << >>)

\* OMP_CAPI(Core_TickCount, uint32_t())
CoreTickCountLine ==
  <<"O","M","P","_","C","A","P","I","(","C","o","r","e","_","T","i","c","k","C","o","u","n","t",","," ","u","i","n","t","3","2","_","t","(",")",")">>
\* OMP_CAPI(Actor_Create, objectPtr(int modelid, float x))
ActorCreateLine ==
  <<"O","M","P","_","C","A","P","I","(","A","c","t","o","r","_","C","r","e","a","t","e",","," ","o","b","j","e","c","t","P","t","r","(","i","n","t"," ","m","o","d","e","l","i","d",","," ","f","l","o","a","t"," ","x",")",")">>
\* OMP_CAPI(Actor_Create, bool(int id)): the same group and name once more.
ActorCreateAgainLine ==
  <<"O","M","P","_","C","A","P","I","(","A","c","t","o","r","_","C","r","e","a","t","e",","," ","b","o","o","l","(","i","n","t"," ","i","d",")",")">>
\* OMP_CAPI(Actor_Get_Pos, bool(objectPtr actor))
ActorGetPosLine ==
  <<"O","M","P","_","C","A","P","I","(","A","c","t","o","r","_","G","e","t","_","P","o","s",","," ","b","o","o","l","(","o","b","j","e","c","t","P","t","r"," ","a","c","t","o","r",")",")">>
CommentLine == <<"/","/"," ","h","e","l","p","e","r","s">>
BrokenLine == <<"O","M","P","_","C","A","P","I","(","B","r","o","k","e","n",")">>

\* The lines a scanned file is made of.
Pool ==
  << CoreTickCountLine, ActorCreateLine, ActorCreateAgainLine, ActorGetPosLine,
     CommentLine, BrokenLine >>

FILE_A == <<"a","/","A","P","I","s",".","c","p","p">>
FILE_B == <<"b","/","A","P","I","s",".","c","p","p">>
FILE_IMPL == <<"a","/","I","m","p","l",".","h","p","p">>

\* The entries of CAPI_DIR, as a recursive readdir lists them.
DirEntries == {FILE_A, FILE_B, FILE_IMPL}

Orders(S) == {o \in [1..Cardinality(S) -> S] : \A i, j \in DOMAIN o : o[i] = o[j] => i = j}

SeqsUpTo(S, n) == UNION {[1..k -> S] : k \in 0..n}

\* files.filter(file => file.endsWith("APIs.cpp"))
filterAPIFiles(entries) == SelectSeq(entries, LAMBDA file : endsWith(file, APIS_SUFFIX))

\* The event schema document apidocs/events.json, when it loads.
EVENTS_FILE ==
  << [group |-> g_Player,
      list |-> << [name |-> n_OnPlayerConnect,
                   args |-> << [name |-> p_playerid, type |-> t_int],
                               [name |-> p_ip, type |-> t_CAPIStringView] >>] >>] >>

(***************************************************************************)
(* The emitted C as its consumer sees it.                                   *)
(***************************************************************************)
DeclaredBefore(out, i, kind, group, name) ==
  \E j \in 1..(i - 1) :
    out[j].kind = kind /\ out[j].group = group /\ out[j].name = name

\* Every type, struct and field a line uses is declared by an earlier line.
ReferencesDeclared(out) ==
  \A i \in 1..Len(out) :
    /\ out[i].kind = "field" =>
         DeclaredBefore(out, i, "typedef", out[i].group, out[i].name)
    /\ out[i].kind = "main_field" =>
         DeclaredBefore(out, i, "struct_open", out[i].group, EMPTY)
    /\ out[i].kind \in {"init_sentinel", "init_assign"} =>
         /\ DeclaredBefore(out, i, "typedef", out[i].group, out[i].name)
         /\ DeclaredBefore(out, i, "field", out[i].group, out[i].name)
         /\ DeclaredBefore(out, i, "main_field", out[i].group, EMPTY)

\* No typedef name and no field of one struct is declared twice.
DeclaredOnce(out) ==
  \A i, j \in 1..Len(out) :
    /\ i < j
    /\ out[i].kind = out[j].kind
    /\ out[i].kind \in {"typedef", "field", "main_field"}
    => ~(out[i].group = out[j].group /\ out[i].name = out[j].name)

\* The header is accepted by a C compiler.
Compiles(out) == ReferencesDeclared(out) /\ DeclaredOnce(out)

\* The fields of the dispatch tables of struct OMPAPI_t.
DeclaredFields(out) ==
  {<<out[i].group, out[i].name>> : i \in {k \in 1..Len(out) : out[k].kind = "field"}}

\* The statements of omp_initialize_capi, in emitted order.
Program(out) ==
  SelectSeq(out, LAMBDA c :
    c.kind \in {"init_open", "init_sentinel", "init_assign", "init_return"})

\* The values of a function-pointer field.
Unset == [state |-> "unset", sym |-> EMPTY]
Null == [state |-> "null", sym |-> EMPTY]
Resolved(symbol) == [state |-> "resolved", sym |-> symbol]

\* dlsym / GetProcAddress
LIBRARY_GET_ADDR(library, symbol) ==
  IF symbol \in library.exports THEN Resolved(symbol) ELSE Null

\* The symbols a $CAPI library may export.
LibrarySymbols ==
  { symbolName(g_Core, n_TickCount), symbolName(g_Actor, n_Create),
    symbolName(g_Actor, join(<<n_Get, n_Pos>>, US)) }

\* The libraries LIBRARY_OPEN may find: none, or one exporting some symbols.
Libraries ==
  {l \in [opens : BOOLEAN, exports : SUBSET LibrarySymbols] :
     l.opens \/ l.exports = {}}

(***************************************************************************)
(* State.                                                                  *)
(***************************************************************************)
VARIABLES
  tool,         \* which generator runs: "header" or "json"
  pc,           \* the generator's position
  files,        \* collectAPIs: the filtered readdir result
  fileIdx,      \* collectAPIs: index of the file being processed
  lineIdx,      \* processFile: index of the next line of the stream
  contents,     \* the lines (indices into Pool) of each file opened so far
  apis,         \* processFile: the records of the current file
  apisByGroup,  \* collectAPIs: the grouped model
  events,       \* the loaded event schema
  output,       \* the output artifact
  console,      \* what was printed
  exitCode,     \* the process exit code
  ip,           \* omp_initialize_capi: index of the next statement, 0 = not called
  lib,          \* the library the consumer's LIBRARY_OPEN finds
  ompapi,       \* the consumer's struct OMPAPI_t, field -> value
  ret,          \* omp_initialize_capi's return value: "none", "true", "false"
  desc,         \* parser check: the annotation line, by its parts
  ppc,          \* parser check: position
  parsed,       \* parser check: parseAPILine's result
  rendered      \* parser check: the re-rendered parameter list

collectVars == <<files, fileIdx, lineIdx, contents, apis, apisByGroup>>
consumerVars == <<ip, lib, ompapi, ret>>
parserVars == <<desc, ppc, parsed, rendered>>
vars ==
  <<tool, pc, files, fileIdx, lineIdx, contents, apis, apisByGroup, events,
    output, console, exitCode, ip, lib, ompapi, ret, desc, ppc, parsed, rendered>>

GeneratorInit ==
  /\ files = << >>
  /\ fileIdx = 1
  /\ lineIdx = 1
  /\ contents = [f \in DirEntries |-> << >>]
  /\ apis = << >>
  /\ apisByGroup = << >>
  /\ events = << >>
  /\ output = STALE
  /\ console = << >>
  /\ exitCode = 0
  /\ ip = 0
  /\ lib = [opens |-> FALSE, exports |-> {}]
  /\ ompapi = << >>
  /\ ret = "none"

Init ==
  /\ tool \in {"header", "json"}
  /\ pc = IF tool = "header" THEN "template" ELSE "readdir"
  /\ GeneratorInit
  /\ desc = CoreTickCountDesc
  /\ ppc = "idle"
  /\ parsed = undefined
  /\ rendered = EMPTY

(***************************************************************************)
(* The generators.                                                         *)
(***************************************************************************)
Message(stream, message, error) ==
  [stream |-> stream, message |-> message, error |-> error]

\* A handler that prints the error and lets the process end normally.
catchError_exitZero(printed, error) ==
  [console |-> Append(printed, [stream |-> "stderr", message |-> "Error generating",
                                error |-> error]),
   exitCode |-> 0,
   pc |-> "failed"]

\* catch (error) { console.error(..., error); process.exit(1); }
catchError(printed, error) ==
  [console |-> Append(printed, Message("stderr", "Error generating", error)),
   exitCode |-> 1,
   pc |-> "failed"]

Throw(error) ==
  LET handled == catchError(console, error)
  IN  /\ console' = handled.console
      /\ exitCode' = handled.exitCode
      /\ pc' = handled.pc

\* Where the run continues once the file loop of collectAPIs /
\* buildAPIDocumentation is over.
AfterFiles(idx, list) ==
  IF idx <= Len(list) THEN "files"
  ELSE IF tool = "header" THEN "events" ELSE "writeJson"

\* fs.writeFileSync(OUTPUT_FILE, HEADER_TEMPLATE)
WriteTemplate ==
  /\ pc = "template"
  /\ \E writable \in BOOLEAN :
       IF writable
       THEN /\ output' = HEADER_TEMPLATE
            /\ pc' = "entities"
            /\ UNCHANGED <<console, exitCode>>
       ELSE /\ Throw("EACCES")
            /\ UNCHANGED output
  /\ UNCHANGED <<tool, collectVars, events, consumerVars, parserVars>>

WriteEntities ==
  /\ pc = "entities"
  /\ output' = output \o writeEntityTypeDefinitions
  /\ pc' = "readdir"
  /\ UNCHANGED <<tool, collectVars, events, console, exitCode, consumerVars, parserVars>>

\* fs.readdirSync(CAPI_DIR, { recursive: true }).filter(...)
Readdir ==
  /\ pc = "readdir"
  /\ \/ \E order \in Orders(DirEntries) :
          /\ files' = filterAPIFiles(order)
          /\ pc' = AfterFiles(fileIdx, files')
          /\ UNCHANGED <<console, exitCode>>
     \/ /\ Throw("ENOENT")
        /\ UNCHANGED files
  /\ UNCHANGED <<tool, fileIdx, lineIdx, contents, apis, apisByGroup, events,
                 output, consumerVars, parserVars>>

LinesSoFar ==
  Len(contents[FILE_A]) + Len(contents[FILE_B]) + Len(contents[FILE_IMPL])

\* processFile(filePath): the stream is created, apis = []
OpenFile ==
  /\ pc = "files"
  /\ fileIdx <= Len(files)
  /\ \E c \in SeqsUpTo(1..Len(Pool), MaxLines - LinesSoFar) :
       contents' = [contents EXCEPT ![files[fileIdx]] = c]
  /\ apis' = << >>
  /\ lineIdx' = 1
  /\ pc' = "read"
  /\ UNCHANGED <<tool, files, fileIdx, apisByGroup, events, output, console,
                 exitCode, consumerVars, parserVars>>

parseLine(line) ==
  IF tool = "header" THEN parseAPILine(line) ELSE doc_parseAPILine(line)

\* for await (const line of rl): one line of the stream
ReadLine ==
  /\ pc = "read"
  /\ lineIdx <= Len(contents[files[fileIdx]])
  /\ LET line == Pool[contents[files[fileIdx]][lineIdx]]
     IN  IF ~startsWith(line, API_PREFIX)
         THEN /\ lineIdx' = lineIdx + 1
              /\ UNCHANGED <<apis, pc, console, exitCode>>
         ELSE IF parseLine(line) = TypeError
         THEN /\ Throw("TypeError")
              /\ UNCHANGED <<apis, lineIdx>>
         ELSE /\ apis' = push(apis, parseLine(line))
              /\ lineIdx' = lineIdx + 1
              /\ UNCHANGED <<pc, console, exitCode>>
  /\ UNCHANGED <<tool, files, fileIdx, contents, apisByGroup, events, output,
                 consumerVars, parserVars>>

\* The stream ends: processFile returns apis and the caller groups them.
EndOfFile ==
  /\ pc = "read"
  /\ lineIdx > Len(contents[files[fileIdx]])
  /\ apisByGroup' = addAll(apisByGroup, apis)
  /\ fileIdx' = fileIdx + 1
  /\ pc' = AfterFiles(fileIdx', files)
  /\ UNCHANGED <<tool, files, lineIdx, contents, apis, events, output, console,
                 exitCode, consumerVars, parserVars>>

\* const events = require(EVENTS_FILE)
LoadEvents ==
  /\ pc = "events"
  /\ \E loads \in BOOLEAN :
       IF loads
       THEN /\ events' = EVENTS_FILE
            /\ pc' = "typedefs"
            /\ UNCHANGED <<console, exitCode>>
       ELSE /\ Throw("MODULE_NOT_FOUND")
            /\ UNCHANGED events
  /\ UNCHANGED <<tool, collectVars, output, consumerVars, parserVars>>

Emit(at, chunks, next) ==
  /\ pc = at
  /\ output' = output \o chunks
  /\ pc' = next
  /\ UNCHANGED <<tool, collectVars, events, console, exitCode, consumerVars, parserVars>>

WriteTypedefs == Emit("typedefs", writeFunctionTypeDefinitions(apisByGroup), "eventdefs")

WriteEvents == Emit("eventdefs", writeEventDefinitions(events), "structs")

WriteStructs == Emit("structs", writeStructDefinitions(apisByGroup), "mainstruct")

WriteMainStruct == Emit("mainstruct", writeMainAPIStruct(apisByGroup), "initializer")

WriteInitializer == Emit("initializer", writeInitializationFunction(apisByGroup), "footer")

\* writeFooter(); console.log(`Header file generated at ...`)
WriteFooter ==
  /\ pc = "footer"
  /\ output' = output \o writeFooter
  /\ console' = Append(console, Message("stdout", "Header file generated", ""))
  /\ pc' = "done"
  /\ UNCHANGED <<tool, collectVars, events, exitCode, consumerVars, parserVars>>

\* fs.writeFileSync(OUTPUT_FILE, JSON.stringify(documentation, null, 2))
WriteJson ==
  /\ pc = "writeJson"
  /\ \E writable \in BOOLEAN :
       IF writable
       THEN /\ output' = stringifyDocumentation(apisByGroup)
            /\ console' = Append(console, Message("stdout", "API documentation generated", ""))
            /\ pc' = "done"
            /\ UNCHANGED exitCode
       ELSE /\ Throw("EACCES")
            /\ UNCHANGED output
  /\ UNCHANGED <<tool, collectVars, events, consumerVars, parserVars>>

(***************************************************************************)
(* The consumer: omp_initialize_capi(&api) of a compiled header.           *)
(***************************************************************************)
Statement == Program(output)[ip]

Running == ip > 0 /\ ret = "none"

CallInitialize ==
  /\ pc = "done"
  /\ tool = "header"
  /\ ip = 0
  /\ Compiles(output) = TRUE
  /\ lib' \in Libraries
  /\ ompapi' = [f \in DeclaredFields(output) |-> Unset]
  /\ ip' = 1
  /\ UNCHANGED <<tool, pc, collectVars, events, output, console, exitCode, ret, parserVars>>

\* void* capi_lib = LIBRARY_OPEN(...); if (!capi_lib) return false;
ExecOpen ==
  /\ Running
  /\ Statement.kind = "init_open"
  /\ IF lib.opens
     THEN ip' = ip + 1 /\ UNCHANGED ret
     ELSE ret' = "false" /\ UNCHANGED ip
  /\ UNCHANGED <<tool, pc, collectVars, events, output, console, exitCode, lib, ompapi, parserVars>>

\* ompapi->Core.TickCount = ...; if (!ompapi->Core.TickCount) return false;
ExecSentinel ==
  /\ Running
  /\ Statement.kind = "init_sentinel"
  /\ LET address == LIBRARY_GET_ADDR(lib, Statement.text)
     IN  /\ ompapi' = [ompapi EXCEPT ![<<Statement.group, Statement.name>>] = address]
         /\ IF address = Null
            THEN ret' = "false" /\ UNCHANGED ip
            ELSE ip' = ip + 1 /\ UNCHANGED ret
  /\ UNCHANGED <<tool, pc, collectVars, events, output, console, exitCode, lib, parserVars>>

\* ompapi->Group.Name = (Group_Name_t)LIBRARY_GET_ADDR(capi_lib, "Group_Name");
ExecAssign ==
  /\ Running
  /\ Statement.kind = "init_assign"
  /\ ompapi' = [ompapi EXCEPT ![<<Statement.group, Statement.name>>] =
                  LIBRARY_GET_ADDR(lib, Statement.text)]
  /\ ip' = ip + 1
  /\ UNCHANGED <<tool, pc, collectVars, events, output, console, exitCode, lib, ret, parserVars>>

\* return true;
ExecReturn ==
  /\ Running
  /\ Statement.kind = "init_return"
  /\ ret' = "true"
  /\ UNCHANGED <<tool, pc, collectVars, events, output, console, exitCode, ip, lib, ompapi, parserVars>>

Next ==
  \/ WriteTemplate
  \/ WriteEntities
  \/ Readdir
  \/ OpenFile
  \/ ReadLine
  \/ EndOfFile
  \/ LoadEvents
  \/ WriteTypedefs
  \/ WriteEvents
  \/ WriteStructs
  \/ WriteMainStruct
  \/ WriteInitializer
  \/ WriteFooter
  \/ WriteJson
  \/ CallInitialize
  \/ ExecOpen
  \/ ExecSentinel
  \/ ExecAssign
  \/ ExecReturn

Spec == Init /\ [][Next]_vars

(***************************************************************************)
(* The parser on its own: one annotation line is parsed by parseAPILine    *)
(* and its parameter list rendered again as the typedef writer does.       *)
(***************************************************************************)
Groups == {g_Actor, g_Core}
NameSegments == {<<n_Create>>, <<n_Get, n_Pos>>, <<n_Print>>}
ReturnTypes == {t_objectPtr, t_int, t_uint32_t}

\* Parameter tokens, each a list of words; the last has one word only.
ParamTokens ==
  { <<t_int, p_modelid>>, <<t_objectPtr, p_actor>>, <<t_int_ptr, p_id>>,
    <<t_StringCharPtr, p_ip>>, <<t_float>> }

\* OMP_CAPI(Actor_Create, objectPtr(int modelid, float x, float y, float z,
\*                                  float rotation, int* id))
ActorCreateExample ==
  Desc(g_Actor, <<n_Create>>, t_objectPtr,
       << <<t_int, p_modelid>>, <<t_float, p_x>>, <<t_float, p_y>>,
          <<t_float, p_z>>, <<t_float, p_rotation>>, <<t_int_ptr, p_id>> >>)

LineDescs ==
  {Desc(g, s, r, p) : g \in Groups, s \in NameSegments, r \in ReturnTypes,
                      p \in SeqsUpTo(ParamTokens, MaxParams)}
  \cup {ActorCreateExample}

ParseInit ==
  /\ tool = "header"
  /\ pc = "idle"
  /\ GeneratorInit
  /\ desc \in LineDescs
  /\ ppc = "line"
  /\ parsed = undefined
  /\ rendered = EMPTY

generatorVars ==
  <<tool, pc, collectVars, events, output, console, exitCode, consumerVars>>

ParseLine ==
  /\ ppc = "line"
  /\ parsed' = parseAPILine(RenderLine(desc))
  /\ ppc' = "parsed"
  /\ UNCHANGED <<generatorVars, desc, rendered>>

RenderParameters ==
  /\ ppc = "parsed"
  /\ rendered' = renderParams(parsed.api.params)
  /\ ppc' = "rendered"
  /\ UNCHANGED <<generatorVars, desc, parsed>>

ParseNext == ParseLine \/ RenderParameters

ParseSpec == ParseInit /\ [][ParseNext]_vars
(***************************************************************************)
(* Definitions the properties are stated with.                             *)
(***************************************************************************)
\* For each line of Pool: whether it starts with the annotation prefix, and
\* what each generator's parser makes of it.
PoolRecords ==
  [k \in 1..Len(Pool) |->
     [annotated |-> startsWith(Pool[k], API_PREFIX),
      header |-> parseAPILine(Pool[k]),
      doc |-> doc_parseAPILine(Pool[k])]]

\* The records of one file, in line order, as the running tool parses them.
FileRecords(f) ==
  LET annotated == SelectSeq(contents[f], LAMBDA k : PoolRecords[k].annotated)
  IN  [i \in 1..Len(annotated) |->
         IF tool = "header" THEN PoolRecords[annotated[i]].header
         ELSE PoolRecords[annotated[i]].doc]

\* The records of all files, the files taken in the given order.
RecordsInOrder(order) ==
  concat([i \in 1..Len(order) |-> FileRecords(order[i])])

\* The records of one group among them.
FunctionsOf(order, group) ==
  LET own == SelectSeq(RecordsInOrder(order), LAMBDA r : r.group = group)
  IN  [i \in 1..Len(own) |-> own[i].api]

\* The file loop is over and the grouped model is complete.
Collected ==
  pc \in {"events", "typedefs", "eventdefs", "structs", "mainstruct",
          "initializer", "footer", "writeJson", "done"}

\* The (group, name) pairs of the model, group by group.
ModelOrder ==
  concat([g \in 1..Len(apisByGroup) |->
    [f \in 1..Len(apisByGroup[g].functions) |->
       <<apisByGroup[g].group, apisByGroup[g].functions[f].name>>]])

GroupOrder == [g \in 1..Len(apisByGroup) |-> apisByGroup[g].group]

\* The (group, name) pairs of the chunks of one kind, in artifact order.
Section(kind) ==
  LET own == SelectSeq(output, LAMBDA c : c.kind = kind)
  IN  [i \in 1..Len(own) |-> <<own[i].group, own[i].name>>]

GroupSection(kind) ==
  LET own == SelectSeq(output, LAMBDA c : c.kind = kind)
  IN  [i \in 1..Len(own) |-> own[i].group]

\* The whole artifact a run writes for a grouped model.
Artifact(byGroup) ==
  IF tool = "header"
  THEN HEADER_TEMPLATE \o writeEntityTypeDefinitions
       \o writeFunctionTypeDefinitions(byGroup) \o writeEventDefinitions(EVENTS_FILE)
       \o writeStructDefinitions(byGroup) \o writeMainAPIStruct(byGroup)
       \o writeInitializationFunction(byGroup) \o writeFooter
  ELSE stringifyDocumentation(byGroup)

\* Code units of the characters of the modelled paths, in increasing order.
CharOrder == <<".", "/", "A", "I", "P", "a", "b", "c", "h", "l", "m", "p", "s">>

CharRank(c) == CHOOSE i \in 1..Len(CharOrder) : CharOrder[i] = c

\* a < b as JavaScript compares strings.
LexLess(a, b) ==
  LET shorter == IF Len(a) <= Len(b) THEN Len(a) ELSE Len(b)
      differ == {i \in 1..shorter : a[i] # b[i]}
  IN  IF differ = {} THEN Len(a) < Len(b)
      ELSE LET i == CHOOSE k \in differ : \A j \in differ : k <= j
           IN  CharRank(a[i]) < CharRank(b[i])

\* The scanned API files, lexicographically by path.
LexicographicFiles ==
  LET S == {f \in DirEntries : endsWith(f, APIS_SUFFIX)}
  IN  CHOOSE o \in Orders(S) : \A i, j \in DOMAIN o : i < j => LexLess(o[i], o[j])

SymbolOf(field) == symbolName(field[1], field[2])

SentinelMissing == ~lib.opens \/ SENTINEL_SYMBOL \notin lib.exports

WellFormed(d) == \A i \in 1..Len(d.params) : Len(d.params[i]) = 2

\* The parameter list as the annotation line spells it.
OriginalParams(d) ==
  join([i \in 1..Len(d.params) |-> join(d.params[i], SP)], COMMA_SP)

\* The complete (type, name) tokens of a line, types normalised.
CompletePairs(d) ==
  LET complete == SelectSeq(d.params, LAMBDA p : Len(p) >= 2)
  IN  [i \in 1..Len(complete) |->
         [name |-> complete[i][2], type |-> convertFunctionArgType(complete[i][1])]]

(***************************************************************************)
(* Properties.                                                             *)
(***************************************************************************)

\* C1: in omp_initialize_capi, when the library does not open or the
\* sentinel Core_TickCount does not resolve, the function returns false and
\* no dispatch-table field is ever assigned a resolved symbol: the open and
\* the sentinel statement with its null check are the first two statements,
\* before every per-group assignment, and a failed open writes no field.
C1_SentinelFailureReturnsFalse ==
  ip > 0 =>
    /\ LET program == Program(output)
       IN  /\ program[1].kind = "init_open"
           /\ program[2].kind = "init_sentinel"
           /\ program[2].text = SENTINEL_SYMBOL
           /\ \A i \in 3..Len(program) : program[i].kind \in {"init_assign", "init_return"}
           /\ ret = "none" => ip <= Len(program)
    /\ SentinelMissing =>
         /\ ret # "true"
         /\ \A f \in DOMAIN ompapi : ompapi[f].state # "resolved"
    /\ ~lib.opens => \A f \in DOMAIN ompapi : ompapi[f] = Unset
    /\ ret = "false" => SentinelMissing

C1_Witness ==
  /\ ret = "false"
  /\ lib.opens
  /\ SENTINEL_SYMBOL \notin lib.exports
  /\ lib.exports # {}
  /\ \E f \in DOMAIN ompapi : f # <<SENTINEL_GROUP, SENTINEL_NAME>> /\ SymbolOf(f) \in lib.exports

C3_ParseAPILineFields ==
  (ppc \in {"parsed", "rendered"} /\ WellFormed(desc)) =>
    /\ parsed # TypeError
    /\ parsed.group = desc.group
    /\ parsed.api.name = join(desc.segs, US)
    /\ parsed.api.ret = convertFunctionArgType(desc.ret)
    /\ parsed.api.params =
         [i \in 1..Len(desc.params) |->
            [name |-> desc.params[i][2],
             type |-> convertFunctionArgType(desc.params[i][1])]]
    /\ LET doc == doc_parseAPILine(RenderLine(desc))
       IN  /\ doc.group = desc.group
           /\ doc.api.name = desc.group \o US \o join(desc.segs, US)
           /\ doc.api.ret = convertTypeName(desc.ret)
           /\ doc.api.params =
                [i \in 1..Len(desc.params) |->
                   [name |-> desc.params[i][2],
                    type |-> convertTypeName(desc.params[i][1])]]
    /\ desc = ActorCreateExample =>
         parsed = [group |-> g_Actor,
                   api |-> [ret |-> t_void_ptr,
                            name |-> n_Create,
                            params |-> << [type |-> t_int, name |-> p_modelid],
                                          [type |-> t_float, name |-> p_x],
                                          [type |-> t_float, name |-> p_y],
                                          [type |-> t_float, name |-> p_z],
                                          [type |-> t_float, name |-> p_rotation],
                                          [type |-> t_int_ptr, name |-> p_id] >>]]

C3_Witness ==
  /\ ppc = "parsed"
  /\ desc = ActorCreateExample
  /\ parsed.group = g_Actor
  /\ parsed.api.name = n_Create
  /\ parsed.api.ret = t_void_ptr
  /\ Len(parsed.api.params) = Len(desc.params)

\* C4: once the files are collected, each group's record list holds the
\* records of that group in file-enumeration order and, within a file, in
\* line order; and every section of the finished artifact (typedefs,
\* dispatch-table fields, initializer assignments, JSON document) lists the
\* groups and their records in exactly the order of the grouped model.
C4_FileThenLineOrder ==
  /\ Collected =>
       /\ \A g \in 1..Len(apisByGroup) :
            apisByGroup[g].functions = FunctionsOf(files, apisByGroup[g].group)
       /\ \A g, h \in 1..Len(apisByGroup) :
            apisByGroup[g].group = apisByGroup[h].group => g = h
       /\ LET records == RecordsInOrder(files)
          IN  {apisByGroup[g].group : g \in 1..Len(apisByGroup)} =
                {records[i].group : i \in 1..Len(records)}
  /\ (pc = "done" /\ tool = "header") =>
       /\ Section("typedef") = ModelOrder
       /\ Section("field") = ModelOrder
       /\ Section("init_assign") = ModelOrder
       /\ GroupSection("typedefs_comment") = GroupOrder
       /\ GroupSection("struct_open") = GroupOrder
       /\ GroupSection("main_field") = GroupOrder
       /\ GroupSection("init_comment") = GroupOrder
  /\ (pc = "done" /\ tool = "json") =>
       /\ Section("json_api") = ModelOrder
       /\ GroupSection("json_component") = GroupOrder

C4_Witness ==
  /\ pc = "done"
  /\ tool = "header"
  /\ files = <<FILE_B, FILE_A>>
  /\ Len(contents[FILE_A]) >= 1
  /\ Len(contents[FILE_B]) >= 2
  /\ Len(apisByGroup) = 2
  /\ Len(ModelOrder) = 3
  /\ Section("field") = ModelOrder

\* C5: the grouped model retains one record per (group, name), so no group
\* list ever holds two records with the same name.
C5_OneRecordPerKey ==
  \A g \in 1..Len(apisByGroup) :
    \A a, b \in 1..Len(apisByGroup[g].functions) :
      apisByGroup[g].functions[a].name = apisByGroup[g].functions[b].name => a = b

\* C6: the artifact of a run is the one obtained by processing the API files
\* lexicographically by path, whatever order the directory enumeration
\* returned them in.
C6_ArtifactIndependentOfEnumeration ==
  pc = "done" =>
    output = Artifact(addAll(<< >>, RecordsInOrder(LexicographicFiles)))

\* C7: a parameter token with a single word is dropped and every other
\* parameter of the line is kept, in the original relative order; the record
\* is still produced.
C7_OneWordParameterDropped ==
  ppc \in {"parsed", "rendered"} =>
    /\ parsed # TypeError
    /\ parsed.group = desc.group
    /\ parsed.api.params = CompletePairs(desc)

C7_Witness ==
  /\ ppc = "parsed"
  /\ Len(desc.params) = 2
  /\ Len(desc.params[1]) = 1
  /\ Len(desc.params[2]) = 2
  /\ parsed.api.params = <<[name |-> desc.params[2][2],
                            type |-> convertFunctionArgType(desc.params[2][1])]>>

\* C8 as stated: parsing a well-formed line and re-rendering its parameters
\* as "type name" joined by ", " yields the original parameter list.
C8_RoundTripOriginal ==
  (ppc = "rendered" /\ WellFormed(desc)) => rendered = OriginalParams(desc)

\* C8 as amended: the re-rendered list holds, in the original order, each
\* original parameter name with its type passed through the function
\* type-mapping table; it is the original list when no type is in the table.
C8_RoundTripNormalized ==
  (ppc = "rendered" /\ WellFormed(desc)) =>
    /\ rendered =
         join([i \in 1..Len(desc.params) |->
                 convertFunctionArgType(desc.params[i][1]) \o SP \o desc.params[i][2]],
              COMMA_SP)
    /\ (\A i \in 1..Len(desc.params) : desc.params[i][1] \notin DOMAIN TYPE_MAPPINGS_function)
         => rendered = OriginalParams(desc)

C8_Witness ==
  /\ ppc = "rendered"
  /\ WellFormed(desc)
  /\ Len(desc.params) = 2
  /\ desc.params[1][1] = t_objectPtr
  /\ desc.params[2][1] = t_int_ptr
  /\ rendered # OriginalParams(desc)

\* C9: a missing directory, an event schema that does not load or an
\* unwritable output aborts the run: the error is printed, the exit code is
\* 1, no further step runs, and the artifact keeps what was written before
\* the failure (in the header generator the preamble and the entity aliases
\* once they were written; nothing new when the first write failed).
C9_FailureAborts ==
  /\ exitCode = 1 <=> pc = "failed"
  /\ pc = "failed" =>
       /\ console = <<Message("stderr", "Error generating", console[1].error)>>
       /\ console[1].error \in {"EACCES", "ENOENT", "MODULE_NOT_FOUND", "TypeError"}
       /\ output = IF tool = "header" /\ console[1].error # "EACCES"
                   THEN HEADER_TEMPLATE \o writeEntityTypeDefinitions
                   ELSE STALE
       /\ ~ENABLED Next

C9_Witness ==
  /\ pc = "failed"
  /\ tool = "header"
  /\ console[1].error = "MODULE_NOT_FOUND"
  /\ apisByGroup # << >>
  /\ output = HEADER_TEMPLATE \o writeEntityTypeDefinitions

\* C10: in every finished header, each function-pointer type and each
\* dispatch-table field the initializer references, the hard-coded sentinel
\* reference included, is declared earlier in the artifact, and no typedef
\* name and no field of a dispatch table is declared twice.
C10_DeclaredBeforeUse ==
  (pc = "done" /\ tool = "header") => Compiles(output)

====
